---- MODULE Spec2Model ----
(***************************************************************************)
(* Model of the attendance scraper: calculate_attendance and              *)
(* login_and_get_attendance (attendance_scraper.py) and the Flask routes   *)
(* /attendance and /streak (app.py).                                       *)
(*                                                                         *)
(* Text is modelled as a sequence of one-character strings, so that the    *)
(* regular expressions, str.strip, str.upper, the "in" substring test and  *)
(* datetime.strptime / strftime are computed, not assumed.  The en dash    *)
(* U+2013 is the single element "u2013".                                   *)
(* Percentages are integers counting hundredths (50.0 is 5000).            *)
(***************************************************************************)
EXTENDS Integers, Sequences, FiniteSets, TLC

\* ------------------------------------------------------------------ bounds
MaxRows == 3
MaxLines == 3
MaxCount == 13
MaxScraped == 3

\* ------------------------------------------------------------- characters
DigitChars == <<"0","1","2","3","4","5","6","7","8","9">>
UpperChars == <<"A","B","C","D","E","F","G","H","I","J","K","L","M",
                "N","O","P","Q","R","S","T","U","V","W","X","Y","Z">>
LowerChars == <<"a","b","c","d","e","f","g","h","i","j","k","l","m",
                "n","o","p","q","r","s","t","u","v","w","x","y","z">>

DigitSet == {DigitChars[i] : i \in 1..10}
UpperSet == {UpperChars[i] : i \in 1..26}
LowerSet == {LowerChars[i] : i \in 1..26}
DigitValue == [c \in DigitSet |-> (CHOOSE i \in 1..10 : DigitChars[i] = c) - 1]
UpperOf == [c \in LowerSet |-> UpperChars[CHOOSE i \in 1..26 : LowerChars[i] = c]]

IsDigit(c) == c \in DigitSet
IsUpperAZ(c) == c \in UpperSet
IsAlpha(c) == c \in UpperSet \/ c \in LowerSet
IsSpace(c) == c \in {" ", "\t", "\n", "\r", "\f"}
DigitVal(c) == DigitValue[c]

UpperChar(c) == IF c \in LowerSet THEN UpperOf[c] ELSE c

\* str.upper()
Upper(s) == [i \in 1..Len(s) |-> UpperChar(s[i])]

SetMin(S) == CHOOSE x \in S : \A y \in S : x <= y
SetMax(S) == CHOOSE x \in S : \A y \in S : x >= y

\* sub in s
Contains(sub, s) ==
    \E i \in 1..(Len(s) - Len(sub) + 1) : SubSeq(s, i, i + Len(sub) - 1) = sub

\* s[i..] begins with pre
StartsAt(s, i, pre) ==
    /\ i + Len(pre) - 1 <= Len(s)
    /\ SubSeq(s, i, i + Len(pre) - 1) = pre

\* The first index >= i of s that does not satisfy the class (Len(s)+1 if none):
\* where a greedy run of that class starting at i stops.
RECURSIVE SkipSpace(_, _)
SkipSpace(s, i) ==
    IF i <= Len(s) /\ IsSpace(s[i]) THEN SkipSpace(s, i + 1) ELSE i

RECURSIVE SkipDigits(_, _)
SkipDigits(s, i) ==
    IF i <= Len(s) /\ IsDigit(s[i]) THEN SkipDigits(s, i + 1) ELSE i

RECURSIVE SkipUpper(_, _)
SkipUpper(s, i) ==
    IF i <= Len(s) /\ IsUpperAZ(s[i]) THEN SkipUpper(s, i + 1) ELSE i

\* The last index <= i of s that is no blank (0 if none)
RECURSIVE SkipSpaceBack(_, _)
SkipSpaceBack(s, i) ==
    IF i >= 1 /\ IsSpace(s[i]) THEN SkipSpaceBack(s, i - 1) ELSE i

\* str.strip()
Strip(s) ==
    IF SkipSpace(s, 1) > Len(s) THEN <<>>
    ELSE SubSeq(s, SkipSpace(s, 1), SkipSpaceBack(s, Len(s)))

\* str.splitlines() on "\n", then the list of the stripped non-empty lines
RECURSIVE SplitLines(_)
SplitLines(s) ==
    IF s = <<>> THEN <<>>
    ELSE LET nl == {i \in 1..Len(s) : s[i] = "\n"}
         IN  IF nl = {} THEN <<s>>
             ELSE <<SubSeq(s, 1, SetMin(nl) - 1)>>
                      \o SplitLines(SubSeq(s, SetMin(nl) + 1, Len(s)))

StrippedLines(page_text) ==
    LET raw == SplitLines(page_text)
        st  == [k \in 1..Len(raw) |-> Strip(raw[k])]
    IN  SelectSeq(st, LAMBDA ln : ln # <<>>)

\* ------------------------------------------------------------ _parse_date
\* Python's None: a value no text equals (every element of a text is one character)
None == <<"None">>

MonthAbbrevs == << <<"J","A","N">>, <<"F","E","B">>, <<"M","A","R">>,
                   <<"A","P","R">>, <<"M","A","Y">>, <<"J","U","N">>,
                   <<"J","U","L">>, <<"A","U","G">>, <<"S","E","P">>,
                   <<"O","C","T">>, <<"N","O","V">>, <<"D","E","C">> >>

IsLeap(y) == (y % 4 = 0 /\ y % 100 # 0) \/ y % 400 = 0

DaysIn(m, y) ==
    IF m = 2 THEN (IF IsLeap(y) THEN 29 ELSE 28)
    ELSE IF m \in {4, 6, 9, 11} THEN 30 ELSE 31

TwoDigits(n) == <<DigitChars[(n \div 10) + 1], DigitChars[(n % 10) + 1]>>

RECURSIVE DecimalDigits(_)
DecimalDigits(n) ==
    IF n < 10 THEN <<DigitChars[n + 1]>>
    ELSE DecimalDigits(n \div 10) \o <<DigitChars[(n % 10) + 1]>>

\* dt.strftime("%Y-%m-%d")
FormatDate(y, m, d) == DecimalDigits(y) \o <<"-">> \o TwoDigits(m) \o <<"-">> \o TwoDigits(d)

\* datetime.strptime(s, fmt) for fmt "%d %b, %Y" (comma) or "%d %b %Y" (no
\* comma), then strftime; None where strptime raises ValueError.  %d is one
\* or two digits (01..31, 1..9), blanks of the format are \s+, %b is a month
\* abbreviation in any case, %Y is four digits, the whole string must match,
\* and the day must exist in the month.
StrptimeFormat(s, comma) ==
    LET dEnd  == SkipDigits(s, 1)
        mBeg  == SkipSpace(s, dEnd)
        mEnd  == mBeg + 3
        cEnd  == IF comma THEN mEnd + 1 ELSE mEnd
        yBeg  == SkipSpace(s, cEnd)
        shape == /\ dEnd \in {2, 3}
                 /\ mBeg > dEnd
                 /\ mEnd - 1 <= Len(s)
                 /\ \E k \in 1..12 : Upper(SubSeq(s, mBeg, mEnd - 1)) = MonthAbbrevs[k]
                 /\ comma => (mEnd <= Len(s) /\ s[mEnd] = ",")
                 /\ yBeg > cEnd
                 /\ yBeg + 3 = Len(s)
                 /\ \A i \in yBeg..Len(s) : IsDigit(s[i])
    IN  IF ~shape THEN None
        ELSE LET d == IF dEnd = 2 THEN DigitVal(s[1])
                      ELSE 10 * DigitVal(s[1]) + DigitVal(s[2])
                 m == CHOOSE k \in 1..12 :
                          Upper(SubSeq(s, mBeg, mEnd - 1)) = MonthAbbrevs[k]
                 y == 1000 * DigitVal(s[yBeg]) + 100 * DigitVal(s[yBeg + 1])
                        + 10 * DigitVal(s[yBeg + 2]) + DigitVal(s[yBeg + 3])
             IN  IF d >= 1 /\ y >= 1 /\ d <= DaysIn(m, y)
                 THEN FormatDate(y, m, d) ELSE None

\* DATE_INPUT_FORMATS, tried in order
parse_date(date_str) ==
    LET s == Strip(date_str)
        a == StrptimeFormat(s, TRUE)
    IN  IF a # None THEN a ELSE StrptimeFormat(s, FALSE)

\* ------------------------------------------------------- regular expressions
Separators == {"-", ":", "u2013"}

\* re.match(r"^\s*([A-Z]{2,}\d+)\s*[-:\u2013]\s*(.+)$", text): the groups, stripped,
\* or matched = FALSE.  Each greedy run is maximal: the character that must
\* follow it is never in the run's class.  "." matches no line break.
MatchCourse(text) ==
    LET a    == SkipSpace(text, 1)
        b    == SkipUpper(text, a)
        c    == SkipDigits(text, b)
        d    == SkipSpace(text, c)
        e    == SkipSpace(text, d + 1)
        head == /\ b - a >= 2
                /\ c > b
                /\ d <= Len(text)
                /\ text[d] \in Separators
        \* (.+) takes the rest; when only blanks follow the separator, \s* gives
        \* them back to (.+)
        gBeg == IF e <= Len(text) THEN e ELSE d + 1
    IN  IF head /\ gBeg <= Len(text)
             /\ \A i \in gBeg..Len(text) : text[i] # "\n"
        THEN [matched |-> TRUE,
              code |-> Strip(SubSeq(text, a, c - 1)),
              name |-> Strip(SubSeq(text, gBeg, Len(text)))]
        ELSE [matched |-> FALSE, code |-> None, name |-> None]

PRESENT == <<"P","R","E","S","E","N","T">>
ABSENT == <<"A","B","S","E","N","T">>
SNO == <<"S",".","N","O">>

\* Where r"\d{1,2}\s+[A-Za-z]{3},\s+\d{4}" matched from index i ends (0: no match
\* at i).  One digit or two: whichever is followed by a blank.
DateEndAt(l, i) ==
    LET n    == Len(l)
        dEnd == IF i + 1 <= n /\ IsDigit(l[i + 1]) THEN i + 2 ELSE i + 1
        mBeg == SkipSpace(l, dEnd)
        yBeg == SkipSpace(l, mBeg + 4)
    IN  IF /\ i <= n /\ IsDigit(l[i])
           /\ mBeg > dEnd
           /\ mBeg + 3 <= n
           /\ \A k \in mBeg..(mBeg + 2) : IsAlpha(l[k])
           /\ l[mBeg + 3] = ","
           /\ yBeg > mBeg + 4
           /\ yBeg + 3 <= n
           /\ \A k \in yBeg..(yBeg + 3) : IsDigit(l[k])
        THEN yBeg + 3 ELSE 0

\* Where PRESENT or ABSENT begins in u (a line in upper case, as
\* re.IGNORECASE reads it) at or after index from
KeywordStarts(u, from) ==
    {k \in from..Len(u) : StartsAt(u, k, PRESENT) \/ StartsAt(u, k, ABSENT)}

\* re.search(r"(\d{1,2}\s+[A-Za-z]{3},\s+\d{4}).*(PRESENT|ABSENT)", l, re.IGNORECASE)
\* on a line l (no line break in it): the leftmost start at which the date is
\* followed, anywhere later in the line, by a keyword; the greedy ".*" makes
\* group 2 the last keyword.
SearchRow(l) ==
    LET u      == Upper(l)
        keys   == KeywordStarts(u, 1)
        starts == {i \in 1..Len(l) :
                      DateEndAt(l, i) # 0 /\ \E k \in keys : k > DateEndAt(l, i)}
    IN  IF keys = {} \/ starts = {}
        THEN [matched |-> FALSE, date |-> None, status |-> None]
        ELSE [matched |-> TRUE,
              date |-> SubSeq(l, SetMin(starts), DateEndAt(l, SetMin(starts))),
              status |-> IF StartsAt(u, SetMax(keys), PRESENT) THEN PRESENT ELSE ABSENT]

\* ---------------------------------------------------- calculate_attendance
EmptyMap == [k \in {} |-> 0]

\* result as built at the top of calculate_attendance
InitialResult ==
    [subjects |-> EmptyMap,
     overall  |-> [present |-> 0, absent |-> 0, percentage |-> 0, success |-> FALSE],
     daily    |-> EmptyMap]

\* The locals of calculate_attendance before the first row
InitialLocals ==
    [result |-> InitialResult,
     current_course_code |-> None,
     current_course_name |-> None,
     total_present |-> 0,
     total_absent |-> 0]

NewSubject(name) ==
    [name |-> name, present |-> 0, absent |-> 0, percentage |-> 0, status |-> ""]

\* A mutant of ensure_subject: the entry is rebuilt on every header
ensure_subject_overwrite(subjects, code, name) ==
    [c \in DOMAIN subjects \cup {code} |->
        IF c = code THEN NewSubject(name) ELSE subjects[c]]

ensure_subject(subjects, code, name) ==
    IF code \in DOMAIN subjects THEN subjects
    ELSE [c \in DOMAIN subjects \cup {code} |->
            IF c = code THEN NewSubject(name) ELSE subjects[c]]

\* result["daily"][date_key] created with zero counts when missing
ensure_daily(daily, date_key) ==
    IF date_key \in DOMAIN daily THEN daily
    ELSE [d \in DOMAIN daily \cup {date_key} |->
            IF d = date_key THEN [present |-> 0, absent |-> 0] ELSE daily[d]]

\* current_course_name or ""
NameOrEmpty(name) == IF name = None THEN <<>> ELSE name

\* A mutant of CountRow: the running totals are not advanced
CountRowNoTotal(L, date_key, field) ==
    LET daily == ensure_daily(L.result.daily, date_key)
        code  == L.current_course_code
        subs  == IF code # None /\ code # <<>>
                 THEN ensure_subject(L.result.subjects, code,
                                     NameOrEmpty(L.current_course_name))
                 ELSE L.result.subjects
    IN  [L EXCEPT !.result.daily = [daily EXCEPT ![date_key][field] = @ + 1],
                  !.result.subjects =
                      IF code # None /\ code # <<>>
                      THEN [subs EXCEPT ![code][field] = @ + 1] ELSE subs]

\* One branch of the status test of a data row (field is "present" or
\* "absent"): the date's count, the running total and, when a current
\* subject is set, the subject's count
CountRow(L, date_key, field) ==
    LET daily == ensure_daily(L.result.daily, date_key)
        code  == L.current_course_code
        subs  == IF code # None /\ code # <<>>
                 THEN ensure_subject(L.result.subjects, code,
                                     NameOrEmpty(L.current_course_name))
                 ELSE L.result.subjects
    IN  [L EXCEPT !.result.daily = [daily EXCEPT ![date_key][field] = @ + 1],
                  !.result.subjects =
                      IF code # None /\ code # <<>>
                      THEN [subs EXCEPT ![code][field] = @ + 1] ELSE subs,
                  !.total_present = IF field = "present" THEN @ + 1 ELSE @,
                  !.total_absent  = IF field = "absent" THEN @ + 1 ELSE @]

\* A subject header row: the pointer moves and the entry is ensured
HeaderRow(L, code, name) ==
    [L EXCEPT !.current_course_code = code,
              !.current_course_name = name,
              !.result.subjects = ensure_subject(@, code, name)]

\* The columnized branch, for a row of at least five cells
DataRow(L, tds) ==
    LET raw_cols == [k \in 1..Len(tds) |-> Strip(tds[k])]
        sno == raw_cols[1]
        date_key == parse_date(raw_cols[2])
        status_up == Upper(raw_cols[5])
    IN  IF \E k \in 1..Len(raw_cols) : Contains(SNO, Upper(raw_cols[k])) THEN L
        ELSE IF sno = <<>> \/ ~IsDigit(sno[1]) THEN L
        ELSE IF date_key = None THEN L
        ELSE IF Contains(PRESENT, status_up) THEN CountRow(L, date_key, "present")
        ELSE IF Contains(ABSENT, status_up) THEN CountRow(L, date_key, "absent")
        ELSE [L EXCEPT !.result.daily = ensure_daily(@, date_key)]

\* One iteration of "for row in rows"
ProcessRow(L, row) ==
    LET text == Strip(row.text)
        m_course == MatchCourse(text)
    IN  IF text = <<>> THEN L
        ELSE IF m_course.matched THEN HeaderRow(L, m_course.code, m_course.name)
        ELSE IF Len(row.tds) >= 5 THEN DataRow(L, row.tds)
        ELSE L

\* A mutant of FallbackActive: the text is scanned whenever it was supplied
FallbackAlways(daily, text) == text # None /\ text # <<>>

\* if not result["daily"] and page_text
FallbackActive(daily, text) == DOMAIN daily = {} /\ text # None /\ text # <<>>

\* One line of the inner while loop of the fallback
FallbackDataLine(L, l) ==
    LET m_row == SearchRow(l)
        date_key == IF m_row.matched THEN parse_date(m_row.date) ELSE None
    IN  IF ~m_row.matched \/ date_key = None THEN L
        ELSE LET daily == ensure_daily(L.result.daily, date_key)
                 field == IF m_row.status = PRESENT THEN "present" ELSE "absent"
                 code  == L.current_course_code
             IN  [L EXCEPT !.result.daily = [daily EXCEPT ![date_key][field] = @ + 1],
                           !.result.subjects[code][field] = @ + 1,
                           !.total_present = IF field = "present" THEN @ + 1 ELSE @,
                           !.total_absent  = IF field = "absent" THEN @ + 1 ELSE @]

\* while j < len(lines): stop at the next course line
RECURSIVE FallbackBlock(_, _, _)
FallbackBlock(L, lns, j) ==
    IF j > Len(lns) \/ MatchCourse(lns[j]).matched THEN L
    ELSE FallbackBlock(FallbackDataLine(L, lns[j]), lns, j + 1)

\* One iteration of "for i, line in enumerate(lines)" (k is i + 1)
FallbackLine(L, lns, k) ==
    LET m_course == MatchCourse(lns[k])
    IN  IF m_course.matched
        THEN FallbackBlock(HeaderRow(L, m_course.code, m_course.name), lns, k + 1)
        ELSE L

\* A mutant of Round2: the quotient is cut, not rounded
Round2Truncate(p, t) == (10000 * p) \div t

\* round((p / t) * 100.0, 2) in hundredths: the nearest hundredth, a tie going
\* to the even one.  Exact for t < 160: below that every tie (t a multiple of
\* 32 in lowest terms) is an exact double.
Round2(p, t) ==
    LET q == (10000 * p) \div t
        r == (10000 * p) % t
    IN  IF 2 * r < t THEN q
        ELSE IF 2 * r > t THEN q + 1
        ELSE IF q % 2 = 0 THEN q ELSE q + 1

\* A mutant of StatusOf: the thresholds are taken inclusive
StatusOfInclusive(percentage) ==
    IF percentage <= 6500 THEN "Shortage"
    ELSE IF percentage <= 7500 THEN "Condonation"
    ELSE ""

\* The status flag of a percentage (in hundredths)
StatusOf(percentage) ==
    IF percentage < 6500 THEN "Shortage"
    ELSE IF percentage < 7500 THEN "Condonation"
    ELSE ""

\* The body of "for sub in result["subjects"].values()"
FinalizeSubject(sub) ==
    LET t == sub.present + sub.absent
    IN  IF t > 0
        THEN [sub EXCEPT !.percentage = Round2(sub.present, t),
                         !.status = StatusOf(Round2(sub.present, t))]
        ELSE sub

\* A message is the sequence of its pieces of text
NoRowsMessage == <<"No attendance rows found.">>

\* A mutant of OverallSummary: success is reported whatever was counted
OverallSummaryAlways(overall, total_present_, total_absent_) ==
    [present |-> total_present_, absent |-> total_absent_,
     percentage |-> IF total_present_ + total_absent_ > 0
                    THEN Round2(total_present_, total_present_ + total_absent_) ELSE 0,
     success |-> TRUE]

\* The "# Overall" block
OverallSummary(overall, total_present_, total_absent_) ==
    LET overall_total == total_present_ + total_absent_
    IN  IF overall_total > 0
        THEN [present |-> total_present_, absent |-> total_absent_,
              percentage |-> Round2(total_present_, overall_total),
              success |-> TRUE]
        ELSE [k \in DOMAIN overall \cup {"message"} |->
                IF k = "success" THEN FALSE
                ELSE IF k = "message"
                THEN (IF "message" \in DOMAIN overall /\ overall["message"] # <<>>
                      THEN overall["message"] ELSE NoRowsMessage)
                ELSE overall[k]]

\* The structured scan, the fallback, the subjects, the overall: the function
\* as a whole
RECURSIVE ScanRows(_, _, _)
ScanRows(L, rs, k) ==
    IF k > Len(rs) THEN L ELSE ScanRows(ProcessRow(L, rs[k]), rs, k + 1)

RECURSIVE ScanLines(_, _, _)
ScanLines(L, lns, k) ==
    IF k > Len(lns) THEN L ELSE ScanLines(FallbackLine(L, lns, k), lns, k + 1)

Finish(L) ==
    [subjects |-> [c \in DOMAIN L.result.subjects |-> FinalizeSubject(L.result.subjects[c])],
     overall  |-> OverallSummary(L.result.overall, L.total_present, L.total_absent),
     daily    |-> L.result.daily]

calculate_attendance(rs, text) ==
    LET A == ScanRows(InitialLocals, rs, 1)
        B == IF FallbackActive(A.result.daily, text)
             THEN ScanLines(A, StrippedLines(text), 1) ELSE A
    IN  Finish(B)

\* ------------------------------------------------------------------ inputs
RECURSIVE Join(_, _)
Join(parts, sep) ==
    IF parts = <<>> THEN <<>>
    ELSE IF Len(parts) = 1 THEN parts[1]
    ELSE parts[1] \o sep \o Join(Tail(parts), sep)

\* A <tr> element: its cells' texts, and its own text (the cells' texts in a line)
Row(cells) == [text |-> Join(cells, <<" ">>), tds |-> cells]

\* a subject header, "AB1 - X"
HeaderAB1 == Row(<< <<"A","B","1"," ","-"," ","X">> >>)
\* the same code under another name, "AB1: Z"
HeaderAB1Renamed == Row(<< <<"A","B","1",":"," ","Z">> >>)
\* a second subject, with an en dash
HeaderCD2 == Row(<< <<"C","D","2"," ","u2013"," ","Y">> >>)
\* a data row, first date format
RowPresent == Row(<< <<"1">>, <<"0","3"," ","S","e","p",","," ","2","0","2","5">>, <<"6">>, <<"t">>, <<"P","R","E","S","E","N","T">> >>)
\* a data row, second date format, mixed case
RowAbsent == Row(<< <<"2">>, <<"4"," ","s","e","p"," ","2","0","2","5">>, <<"6">>, <<"t">>, <<"A","b","s","e","n","t">> >>)
\* a data row whose status is neither PRESENT nor ABSENT
RowLeave == Row(<< <<"3">>, <<"0","5"," ","S","e","p",","," ","2","0","2","5">>, <<"6">>, <<"t">>, <<"L","E","A","V","E">> >>)
\* the column header row
RowSNo == Row(<< <<"S",".","N","o">>, <<"D","a","t","e">>, <<"P","e","r","i","o","d">>, <<"T","o","p","i","c","s">>, <<"S","t","a","t","u","s">> >>)
\* a data row whose date no format accepts
RowBadDate == Row(<< <<"4">>, <<"2","0","2","5","-","0","9","-","0","3">>, <<"6">>, <<"t">>, <<"P","R","E","S","E","N","T">> >>)
\* fewer than five cells
RowShort == Row(<< <<"5">>, <<"0","3"," ","S","e","p",","," ","2","0","2","5">>, <<"P","R","E","S","E","N","T">> >>)
\* a row whose text is blank
RowBlank == Row(<< <<" ">> >>)

RowCatalogue ==
    {HeaderAB1, HeaderAB1Renamed, HeaderCD2, RowPresent, RowAbsent, RowLeave,
     RowSNo, RowBadDate}

\* Rows passed over before any cell is read, among a header and a counted row
SkippedCatalogue == {HeaderAB1, RowPresent, RowShort, RowBlank}

\* Rows that add no per-date entry
QuietRows == {HeaderAB1, RowSNo}

LineAB1 == <<"A","B","1"," ","-"," ","X">>
LineCD2 == <<"C","D","2",":"," ","Y">>
LinePresent == <<"1"," ","0","3"," ","S","e","p",","," ","2","0","2","5"," ","6"," ","t"," ","P","R","E","S","E","N","T">>
LineAbsent == <<"2"," ","0","4"," ","S","e","p",","," ","2","0","2","5"," ","6"," ","t"," ","a","b","s","e","n","t">>
LineNoComma == <<"3"," ","0","5"," ","S","e","p"," ","2","0","2","5"," ","6"," ","t"," ","P","R","E","S","E","N","T">>

LineCatalogue == {LineAB1, LineCD2, LinePresent, LineAbsent, LineNoComma}

SeqsUpTo(S, n) == UNION {[1..k -> S] : k \in 0..n}

\* A page text of one course and one row
SampleText == Join(<<LineAB1, LinePresent>>, <<"\n">>)

\* The inputs: any rows with no text or the sample text, the rows that are
\* passed over early with no text, or a few rows that leave the per-date
\* mapping empty with any text of up to MaxLines lines
Inputs ==
    {<<r, t>> : r \in SeqsUpTo(RowCatalogue, MaxRows), t \in {None, SampleText}}
      \cup {<<r, None>> : r \in SeqsUpTo(SkippedCatalogue, MaxRows)}
      \cup {<<r, Join(ls, <<"\n">>)>> :
                r \in SeqsUpTo(QuietRows, 1), ls \in SeqsUpTo(LineCatalogue, MaxLines)}

\* ------------------------------------------------------------------- state
VARIABLES
    rows, page_text,          \* calculate_attendance's arguments; in the login
                              \* flow, what the driver found on the page
    pc,                       \* where calculate_attendance stands
    i,                        \* the index of the next row, or of the next line
    lines,                    \* the fallback's list of stripped lines
    result, current_course_code, current_course_name, total_present, total_absent,
    login_pc,                 \* where login_and_get_attendance stands
    driver,                   \* the browser session: "none", "open", "quit"
    quit_called,              \* driver.quit() was invoked
    ret,                      \* login_and_get_attendance's return value, once a
                              \* return statement has run
    session,                  \* the Flask session of one browser
    response                  \* the last response sent to that browser

aggVars == <<pc, i, lines, result, current_course_code, current_course_name,
             total_present, total_absent>>
inputVars == <<rows, page_text>>
loginVars == <<login_pc, driver, quit_called, ret>>
appVars == <<session, response>>
vars == <<inputVars, aggVars, loginVars, appVars>>

Locals ==
    [result |-> result,
     current_course_code |-> current_course_code,
     current_course_name |-> current_course_name,
     total_present |-> total_present,
     total_absent |-> total_absent]

SetLocals(L) ==
    /\ result' = L.result
    /\ current_course_code' = L.current_course_code
    /\ current_course_name' = L.current_course_name
    /\ total_present' = L.total_present
    /\ total_absent' = L.total_absent

SetLocalsNow(L) ==
    /\ result = L.result
    /\ current_course_code = L.current_course_code
    /\ current_course_name = L.current_course_name
    /\ total_present = L.total_present
    /\ total_absent = L.total_absent

NoReturn == "NoReturn"

\* calculate_attendance not called
AggIdle ==
    /\ pc = "idle"
    /\ i = 1
    /\ lines = <<>>
    /\ SetLocalsNow(InitialLocals)

\* login_and_get_attendance not called
LoginIdle ==
    /\ login_pc = "idle"
    /\ driver = "none"
    /\ quit_called = FALSE
    /\ ret = NoReturn

\* no request served
AppIdle ==
    /\ session = EmptyMap
    /\ response = [view |-> "none"]

\* ------------------------------------------- calculate_attendance, by steps
Init ==
    /\ \E in \in Inputs : rows = in[1] /\ page_text = in[2]
    /\ pc = "rows"
    /\ i = 1
    /\ lines = <<>>
    /\ SetLocalsNow(InitialLocals)
    /\ LoginIdle
    /\ AppIdle

\* for row in rows: one row
RowStep ==
    /\ pc = "rows"
    /\ i <= Len(rows)
    /\ \E L \in {ProcessRow(Locals, rows[i])} : SetLocals(L)
    /\ i' = i + 1
    /\ UNCHANGED <<inputVars, pc, lines, loginVars, appVars>>

\* The rows are done: the fallback is entered or passed over
FallbackTest ==
    /\ pc = "rows"
    /\ i > Len(rows)
    /\ IF FallbackActive(result.daily, page_text)
       THEN pc' = "fallback" /\ lines' = StrippedLines(page_text)
       ELSE pc' = "subjects" /\ lines' = lines
    /\ i' = 1
    /\ UNCHANGED <<inputVars, result, current_course_code, current_course_name,
                   total_present, total_absent, loginVars, appVars>>

\* for i, line in enumerate(lines): one line, with the rows under it
FallbackStep ==
    /\ pc = "fallback"
    /\ i <= Len(lines)
    /\ \E L \in {FallbackLine(Locals, lines, i)} : SetLocals(L)
    /\ i' = i + 1
    /\ UNCHANGED <<inputVars, pc, lines, loginVars, appVars>>

FallbackEnd ==
    /\ pc = "fallback"
    /\ i > Len(lines)
    /\ pc' = "subjects"
    /\ UNCHANGED <<inputVars, i, lines, result, current_course_code,
                   current_course_name, total_present, total_absent,
                   loginVars, appVars>>

\* Subject percentages and status flags
SubjectsStep ==
    /\ pc = "subjects"
    /\ result' = [result EXCEPT !.subjects =
                     [c \in DOMAIN result.subjects |-> FinalizeSubject(result.subjects[c])]]
    /\ pc' = "overall"
    /\ UNCHANGED <<inputVars, i, lines, current_course_code, current_course_name,
                   total_present, total_absent, loginVars, appVars>>

\* Overall, and return result
OverallStep ==
    /\ pc = "overall"
    /\ result' = [result EXCEPT !.overall =
                     OverallSummary(result.overall, total_present, total_absent)]
    /\ pc' = "done"
    /\ UNCHANGED <<inputVars, i, lines, current_course_code, current_course_name,
                   total_present, total_absent, loginVars, appVars>>

Next ==
    \/ RowStep
    \/ FallbackTest
    \/ FallbackStep
    \/ FallbackEnd
    \/ SubjectsStep
    \/ OverallStep

Spec == Init /\ [][Next]_vars

\* ------------------------------------ the closing steps, on larger counts
RECURSIVE Repeat(_, _)
Repeat(x, n) == IF n = 0 THEN <<>> ELSE <<x>> \o Repeat(x, n - 1)

\* calculate_attendance after its scan of one subject's rows, p of them
\* PRESENT and a of them ABSENT, with no page text
InitTotals ==
    /\ \E p \in 0..MaxCount, a \in 0..MaxCount :
          rows = <<HeaderAB1>> \o Repeat(RowPresent, p) \o Repeat(RowAbsent, a)
    /\ page_text = None
    /\ pc = "subjects"
    /\ i = 1
    /\ lines = <<>>
    /\ \E L \in {ScanRows(InitialLocals, rows, 1)} : SetLocalsNow(L)
    /\ LoginIdle
    /\ AppIdle

NextTotals ==
    \/ SubjectsStep
    \/ OverallStep

SpecTotals == InitTotals /\ [][NextTotals]_vars

\* ------------------------------------------------ login_and_get_attendance
\* What driver.find_elements(By.TAG_NAME, "tr") and the body's text can be
ScrapedCatalogue == {HeaderAB1, HeaderCD2, RowPresent, RowAbsent, RowLeave, RowSNo}

Scraped ==
    {<<r, t>> : r \in SeqsUpTo(ScrapedCatalogue, MaxScraped), t \in {<<>>, SampleText}}

\* str(e) of what selenium, the driver or the aggregation may raise
Exceptions == {"WebDriverException", "NoSuchElementException"}

LoginFailed ==
    [overall |-> [success |-> FALSE,
                  message |-> <<"Login failed. Please check your credentials.">>]]

\* {"overall": {"success": False, "message": f"Error: {str(e)}"}}
ErrorResult(e) == [overall |-> [success |-> FALSE, message |-> <<"Error: ", e>>]]

InitLogin ==
    /\ rows = <<>>
    /\ page_text = None
    /\ AggIdle
    /\ login_pc = "create_driver"
    /\ driver = "none"
    /\ quit_called = FALSE
    /\ ret = NoReturn
    /\ AppIdle

\* driver = create_driver(), before the try: the session opens
CreateDriver ==
    /\ login_pc = "create_driver"
    /\ driver' = "open"
    /\ login_pc' = "get_login"
    /\ UNCHANGED <<inputVars, aggVars, quit_called, ret, appVars>>

\* create_driver() raises (no chromedriver, or Chrome does not start): nothing
\* catches it, login_and_get_attendance ends by the exception
CreateDriverRaises ==
    /\ login_pc = "create_driver"
    /\ login_pc' = "propagated"
    /\ UNCHANGED <<inputVars, aggVars, driver, quit_called, ret, appVars>>

\* A statement of the try block that is no return: the login page, the form,
\* the attendance page, in this order
TryStep ==
    /\ \/ login_pc = "get_login" /\ login_pc' = "fill_form"
       \/ login_pc = "fill_form" /\ login_pc' = "login_check"
       \/ login_pc = "get_attendance" /\ login_pc' = "find_rows"
    /\ UNCHANGED <<inputVars, aggVars, driver, quit_called, ret, appVars>>

\* The login check: rejected credentials return LoginFailed
LoginCheck ==
    /\ login_pc = "login_check"
    /\ \E rejected \in BOOLEAN :
          IF rejected
          THEN ret' = LoginFailed /\ login_pc' = "finally"
          ELSE ret' = ret /\ login_pc' = "get_attendance"
    /\ UNCHANGED <<inputVars, aggVars, driver, quit_called, appVars>>

\* rows = driver.find_elements(...); page_text = ...find_element(...).text
FindRows ==
    /\ login_pc = "find_rows"
    /\ \E in \in Scraped : rows' = in[1] /\ page_text' = in[2]
    /\ login_pc' = "calculate"
    /\ UNCHANGED <<aggVars, driver, quit_called, ret, appVars>>

\* return calculate_attendance(rows, page_text=page_text)
Calculate ==
    /\ login_pc = "calculate"
    /\ ret' = calculate_attendance(rows, page_text)
    /\ login_pc' = "finally"
    /\ UNCHANGED <<inputVars, aggVars, driver, quit_called, appVars>>

\* Any statement of the try block raises: except Exception returns ErrorResult
TryRaises ==
    /\ login_pc \in {"get_login", "fill_form", "login_check", "get_attendance",
                     "find_rows", "calculate"}
    /\ \E e \in Exceptions : ret' = ErrorResult(e)
    /\ login_pc' = "finally"
    /\ UNCHANGED <<inputVars, aggVars, driver, quit_called, appVars>>

\* A mutant of Finally: the session is closed only after a successful scrape
FinallyOnSuccess ==
    /\ login_pc = "finally"
    /\ quit_called' = ret.overall.success
    /\ \E quit_ok \in BOOLEAN : driver' = IF quit_ok THEN "quit" ELSE "quit_failed"
    /\ login_pc' = "returned"
    /\ UNCHANGED <<inputVars, aggVars, ret, appVars>>

\* finally: driver.quit(), whose own exception is swallowed; then the pending
\* return value is returned
Finally ==
    /\ login_pc = "finally"
    /\ quit_called' = TRUE
    /\ \E quit_ok \in BOOLEAN : driver' = IF quit_ok THEN "quit" ELSE "quit_failed"
    /\ login_pc' = "returned"
    /\ UNCHANGED <<inputVars, aggVars, ret, appVars>>

NextLogin ==
    \/ CreateDriver
    \/ CreateDriverRaises
    \/ TryStep
    \/ LoginCheck
    \/ FindRows
    \/ Calculate
    \/ TryRaises
    \/ Finally

SpecLogin == InitLogin /\ [][NextLogin]_vars

\* Every value login_and_get_attendance can return
LoginReturns ==
    {LoginFailed} \cup {ErrorResult(e) : e \in Exceptions}
        \cup {calculate_attendance(in[1], in[2]) : in \in Scraped}

\* ------------------------------------------------------------------ app.py
InitApp ==
    /\ rows = <<>>
    /\ page_text = None
    /\ AggIdle
    /\ LoginIdle
    /\ AppIdle

\* session.get(key, {})
SessionGet(key) == IF key \in DOMAIN session THEN session[key] ELSE EmptyMap

\* GET /
home ==
    /\ response' = [view |-> "login.html"]
    /\ UNCHANGED <<inputVars, aggVars, loginVars, session>>

\* POST /attendance without a username or a password
attendance_missing ==
    /\ response' = [view |-> "login.html", error |-> <<"Please enter username and password.">>]
    /\ UNCHANGED <<inputVars, aggVars, loginVars, session>>

\* POST /attendance, login_and_get_attendance ending by an exception: nothing
\* in the route catches it
attendance_raises ==
    /\ response' = [view |-> "500"]
    /\ UNCHANGED <<inputVars, aggVars, loginVars, session>>

\* data.get("streak", {}): a Result has no "streak" key
DataGet(data, key) == IF key \in DOMAIN data THEN data[key] ELSE EmptyMap

\* sorted({d[:7] for d in streak_data.keys()})
Months(streak_data) == {SubSeq(d, 1, 7) : d \in DOMAIN streak_data}

\* The three session keys POST /attendance writes
StoreSession(data) ==
    [k \in DOMAIN session \cup {"daily_data", "streak_data", "months"} |->
        IF k = "daily_data" THEN DataGet(data, "daily")
        ELSE IF k = "streak_data" THEN DataGet(data, "streak")
        ELSE IF k = "months" THEN Months(DataGet(data, "streak"))
        ELSE session[k]]

\* POST /attendance with both fields, login_and_get_attendance returning data
attendance ==
    \E data \in LoginReturns :
        IF ~data.overall.success
        THEN /\ response' = [view |-> "login.html", error |-> data.overall.message]
             /\ UNCHANGED <<inputVars, aggVars, loginVars, session>>
        ELSE /\ session' = StoreSession(data)
             /\ response' = [view |-> "attendance.html",
                             subjects |-> DataGet(data, "subjects"),
                             overall |-> data.overall]
             /\ UNCHANGED <<inputVars, aggVars, loginVars>>

\* d < e for two date keys of one length: the order of their digits
SeqLess(d, e) ==
    \E k \in 1..Len(d) :
        /\ \A j \in 1..(k - 1) : d[j] = e[j]
        /\ IsDigit(d[k]) /\ IsDigit(e[k]) /\ DigitVal(d[k]) < DigitVal(e[k])

\* GET /streak
streak ==
    LET streak_data == SessionGet("streak_data")
    IN  /\ IF DOMAIN streak_data = {}
           THEN response' = [view |-> "redirect:home"]
           ELSE response' = [view |-> "streak.html",
                             streak_data |-> streak_data,
                             initial_date |-> CHOOSE d \in DOMAIN streak_data :
                                 \A e \in DOMAIN streak_data : d = e \/ ~SeqLess(d, e)]
        /\ UNCHANGED <<inputVars, aggVars, loginVars, session>>

NextApp ==
    \/ home
    \/ attendance_missing
    \/ attendance_raises
    \/ attendance
    \/ streak

SpecApp == InitApp /\ [][NextApp]_vars

\* ================================================================== claims
\* What the claims say of the inputs, stated on the rows and the text
\* themselves rather than on the counters.

\* The row is a subject header
IsHeader(row) == Strip(row.text) # <<>> /\ MatchCourse(Strip(row.text)).matched

\* The row is a data row: 5 or more cells, no S.No cell, a first cell that
\* begins with a digit, a date one of the formats accepts
IsData(row) ==
    /\ Len(row.tds) >= 5
    /\ Strip(row.text) # <<>>
    /\ ~IsHeader(row)
    /\ \A k \in 1..Len(row.tds) : ~Contains(SNO, Upper(Strip(row.tds[k])))
    /\ Strip(row.tds[1]) # <<>> /\ IsDigit(Strip(row.tds[1])[1])
    /\ parse_date(row.tds[2]) # None

\* How a data row's status cell reads
StatusClass(row) ==
    IF Contains(PRESENT, Upper(row.tds[5])) THEN "present"
    ELSE IF Contains(ABSENT, Upper(row.tds[5])) THEN "absent"
    ELSE "neither"

\* What a row is: a header (with its code and name), a data row (with the
\* class of its status), or neither
FactsOfRow(row) ==
    IF IsHeader(row)
    THEN [header |-> TRUE, data |-> FALSE, class |-> "none",
          code |-> MatchCourse(Strip(row.text)).code,
          name |-> MatchCourse(Strip(row.text)).name]
    ELSE IF IsData(row)
    THEN [header |-> FALSE, data |-> TRUE, class |-> StatusClass(row),
          code |-> None, name |-> None]
    ELSE [header |-> FALSE, data |-> FALSE, class |-> "none",
          code |-> None, name |-> None]

\* The rows, each read once
RECURSIVE Facts(_)
Facts(rs) == IF rs = <<>> THEN <<>> ELSE <<FactsOfRow(Head(rs))>> \o Facts(Tail(rs))

\* The data rows among the first n rows that count as field
CountedRows(K, n, field) == {k \in 1..n : K[k].data /\ K[k].class = field}

\* The headers before row k, and the code of the last of them
HeadersBefore(K, k) == {h \in 1..(k - 1) : K[h].header}
LastCode(K, k) ==
    IF HeadersBefore(K, k) = {} THEN None ELSE K[SetMax(HeadersBefore(K, k))].code

\* The fallback is due: no data row among the rows, and a non-empty text
FallbackDue(K, text) ==
    /\ \A k \in 1..Len(K) : ~K[k].data
    /\ text # None /\ text # <<>>

\* The lines of the text that the fallback counts as field: under a course
\* line, no course line themselves, with a date and a keyword
CountedLines(text, field) ==
    LET lns == StrippedLines(text)
        hdr == {h \in 1..Len(lns) : MatchCourse(lns[h]).matched}
    IN  {j \in 1..Len(lns) :
            /\ j \notin hdr
            /\ \E h \in hdr : h < j
            /\ LET m == SearchRow(lns[j])
               IN  /\ m.matched
                   /\ parse_date(m.date) # None
                   /\ m.status = (IF field = "present" THEN PRESENT ELSE ABSENT)}

\* The number of rows (or, when the fallback is due, of lines) counted as field
Counted(K, text, field) ==
    IF FallbackDue(K, text) THEN Cardinality(CountedLines(text, field))
    ELSE Cardinality(CountedRows(K, Len(K), field))

RECURSIVE SumOver(_, _, _)
SumOver(f, S, field) ==
    IF S = {} THEN 0
    ELSE LET x == CHOOSE y \in S : TRUE
         IN  f[x][field] + SumOver(f, S \ {x}, field)

SumOf(f, field) == SumOver(f, DOMAIN f, field)

RemoveAt(rs, k) == SubSeq(rs, 1, k - 1) \o SubSeq(rs, k + 1, Len(rs))

Abs(x) == IF x < 0 THEN -x ELSE x

\* C1: when calculate_attendance returns, overall.success is false with the
\* message "No attendance rows found." exactly when no row was counted as
\* PRESENT or ABSENT; otherwise success is true and overall.present and
\* overall.absent are the numbers of rows counted.
C1_NoRowsExactlyWhenNothingCounted ==
    pc = "done" =>
        LET K  == Facts(rows)
            np == Counted(K, page_text, "present")
            na == Counted(K, page_text, "absent")
            failed == /\ result.overall.success = FALSE
                      /\ "message" \in DOMAIN result.overall
                      /\ result.overall.message = NoRowsMessage
        IN  /\ failed <=> (np + na = 0)
            /\ np + na > 0 =>
                  /\ result.overall.success = TRUE
                  /\ result.overall.present = np
                  /\ result.overall.absent = na

\* C1's case: rows were given, one of them a dated data row, none counted
C1_Witness ==
    /\ pc = "done"
    /\ result.overall.success = FALSE
    /\ \E k \in 1..Len(rows) : IsData(rows[k])

\* C3: the fallback is entered only when the rows left the per-date mapping
\* empty and a non-empty text was given; when the rows gave a per-date
\* entry, or no text was given, the Result is that of the rows alone.
C3_FallbackOnlyOnEmptyDaily ==
    /\ pc = "fallback" => FallbackDue(Facts(rows), page_text)
    /\ (pc = "done" /\ ~FallbackDue(Facts(rows), page_text)) =>
            result = calculate_attendance(rows, None)

\* C3's case: counted rows and a text that has a countable line of its own
C3_Witness ==
    /\ pc = "done"
    /\ result.overall.success = TRUE
    /\ \E k \in 1..Len(rows) : IsData(rows[k])
    /\ page_text # None /\ page_text # <<>>
    /\ CountedLines(page_text, "present") # {}

\* C4, as claimed: a data row whose status is neither PRESENT nor ABSENT
\* leaves the Result what it is without that row.
C4_NeitherRowIgnored ==
    pc = "done" =>
        \A k \in 1..Len(rows) :
            (IsData(rows[k]) /\ StatusClass(rows[k]) = "neither") =>
                result = calculate_attendance(RemoveAt(rows, k), page_text)

\* C5: once the subjects are closed, a subject with present + absent > 0 has
\* the percentage that is the hundredth nearest to present / total * 100 (the
\* even one on a tie), and a subject with no counted row has 0.0 and "".
C5_PercentageIsRounded ==
    pc \in {"overall", "done"} =>
        \A c \in DOMAIN result.subjects :
            LET sub == result.subjects[c]
                t == sub.present + sub.absent
            IN  /\ t > 0 =>
                     /\ 2 * Abs(sub.percentage * t - 10000 * sub.present) <= t
                     /\ 2 * Abs(sub.percentage * t - 10000 * sub.present) = t
                            => sub.percentage % 2 = 0
                /\ t = 0 => (sub.percentage = 0 /\ sub.status = "")

\* C5's case: a percentage that had to be rounded up (2/3 gives 66.67)
C5_Witness ==
    /\ pc = "done"
    /\ \E c \in DOMAIN result.subjects :
          /\ result.subjects[c].present = 2
          /\ result.subjects[c].absent = 1
          /\ result.subjects[c].percentage = 6667

\* C6: for a subject with counted rows the status follows the two-decimal
\* percentage with exact thresholds: "Shortage" iff below 65, "Condonation"
\* iff from 65 to below 75, "" iff 75 or more.
C6_StatusThresholds ==
    pc \in {"overall", "done"} =>
        \A c \in DOMAIN result.subjects :
            LET sub == result.subjects[c]
            IN  sub.present + sub.absent > 0 =>
                  /\ sub.status = "Shortage" <=> sub.percentage < 6500
                  /\ sub.status = "Condonation" <=>
                         (6500 <= sub.percentage /\ sub.percentage < 7500)
                  /\ sub.status = "" <=> sub.percentage >= 7500

\* C6's case: a subject at exactly 65.00 (13 of 20)
C6_Witness ==
    /\ pc = "done"
    /\ \E c \in DOMAIN result.subjects :
          /\ result.subjects[c].percentage = 6500
          /\ result.subjects[c].status = "Condonation"

\* C9: during the scan of the rows each subject holds the counted rows whose
\* last preceding header is its own, rows with no header before them are in
\* no subject, and a subject keeps the name of its first header.
C9_RowsGoToLastHeader ==
    pc = "rows" =>
        LET K == Facts(SubSeq(rows, 1, i - 1))
            H == {h \in 1..(i - 1) : K[h].header}
        IN  /\ DOMAIN result.subjects = {K[h].code : h \in H}
            /\ \A c \in DOMAIN result.subjects :
                  /\ result.subjects[c].present =
                        Cardinality({k \in CountedRows(K, i - 1, "present") :
                                        LastCode(K, k) = c})
                  /\ result.subjects[c].absent =
                        Cardinality({k \in CountedRows(K, i - 1, "absent") :
                                        LastCode(K, k) = c})
                  /\ result.subjects[c].name =
                        K[SetMin({h \in H : K[h].code = c})].name

\* C9's case: a header, a counted row of its subject, then a header of the
\* same code under another name
C9_Witness ==
    /\ pc = "rows"
    /\ \E h1 \in 1..(i - 1), k \in 1..(i - 1), h2 \in 1..(i - 1) :
          /\ h1 < k /\ k < h2
          /\ IsHeader(rows[h1]) /\ IsHeader(rows[h2])
          /\ FactsOfRow(rows[h1]).code = FactsOfRow(rows[h2]).code
          /\ FactsOfRow(rows[h1]).name # FactsOfRow(rows[h2]).name
          /\ IsData(rows[k]) /\ StatusClass(rows[k]) = "present"
          /\ result.subjects[FactsOfRow(rows[h1]).code].present = 1
          /\ result.subjects[FactsOfRow(rows[h1]).code].name = FactsOfRow(rows[h1]).name

\* Every counted row (or line) has a header before it
AllUnderHeaders(K, text) ==
    \/ FallbackDue(K, text)
    \/ \A k \in CountedRows(K, Len(K), "present") \cup CountedRows(K, Len(K), "absent") :
          HeadersBefore(K, k) # {}

\* C10: in a returned Result the per-date counts add up to the overall
\* counts, the subjects' counts add up to no more, and to as much when every
\* counted row follows a header (as it always does in the fallback).
C10_Conservation ==
    pc = "done" =>
        /\ SumOf(result.daily, "present") = result.overall.present
        /\ SumOf(result.daily, "absent") = result.overall.absent
        /\ SumOf(result.subjects, "present") <= result.overall.present
        /\ SumOf(result.subjects, "absent") <= result.overall.absent
        /\ AllUnderHeaders(Facts(rows), page_text) =>
              /\ SumOf(result.subjects, "present") = result.overall.present
              /\ SumOf(result.subjects, "absent") = result.overall.absent

\* C10's case: a counted row before any header and one after
C10_Witness ==
    /\ pc = "done"
    /\ result.overall.success = TRUE
    /\ SumOf(result.subjects, "present") + SumOf(result.subjects, "absent") > 0
    /\ SumOf(result.subjects, "present") + SumOf(result.subjects, "absent")
          < result.overall.present + result.overall.absent

\* C2, as claimed: login_and_get_attendance never ends by an exception, and
\* what it returns after a failure is a mapping with success false and a
\* message.
C2_NeverPropagates ==
    /\ login_pc # "propagated"
    /\ login_pc = "returned" =>
          /\ ret # NoReturn
          /\ ret.overall.success = FALSE => "message" \in DOMAIN ret.overall

\* C7: when login_and_get_attendance has ended with a session created,
\* driver.quit() was invoked; and the finally block leaves the pending return
\* value as it is, whether quit succeeds or fails.
C7_TeardownBeforeReturn ==
    /\ []((login_pc \in {"returned", "propagated"} /\ driver # "none") => quit_called)
    /\ [][login_pc = "finally" => ret' = ret]_vars

\* C7's case: a scrape that succeeded, returned after a quit that failed
C7_Witness ==
    /\ login_pc = "returned"
    /\ driver = "quit_failed"
    /\ ret.overall.success = TRUE

\* C8, as claimed: /streak redirects to the entry page only when the session
\* holds no per-date data.
C8_StreakRendersStoredData ==
    response.view = "redirect:home" =>
        \/ "daily_data" \notin DOMAIN session
        \/ DOMAIN session["daily_data"] = {}

====
